---- MODULE Spec2Model ----
(***************************************************************************)
(* Model of the blog views of blogicum (src/blogicum/blog/views.py): the   *)
(* store of posts and comments, the clock, the categories' publication     *)
(* flags, and one action per view.  Every request records the response the *)
(* view produced in the variable `response`.                               *)
(*                                                                         *)
(* A post carries the fields the views read or write through their guards  *)
(* and filters: id, author, is_published, category, pub_date.  A comment    *)
(* carries id, post, author, text.  Feeds are modelled as the set of post  *)
(* ids of the queryset (all pages of the paginator together).              *)
(***************************************************************************)
EXTENDS Integers, FiniteSets

\* ------------------------------------------------------------------ bounds
MaxPosts == 1
MaxComments == 1
MaxTime == 1

\* ------------------------------------------------------------------ values
Users == {"u1", "u2"}
Anonymous == "AnonymousUser"
Viewers == Users \cup {Anonymous}
\* request.user.is_authenticated
is_authenticated(viewer) == viewer \in Users

Categories == {"c1", "c2"}
\* a slug no Category row carries
NoSlug == "no-such-category"
Slugs == Categories \cup {NoSlug}
\* a username no User row carries
NoUsername == "no-such-user"
Usernames == Users \cup {NoUsername}

Times == 0..MaxTime
PostIds == 1..MaxPosts
CommentIds == 1..MaxComments
\* a primary key the store never allocates
AbsentId == MaxPosts + 1
Texts == {"t1", "t2"}
Methods == {"GET", "POST"}

VARIABLES posts, comments, nextPostId, nextCommentId, catPublished, now, response

vars == <<posts, comments, nextPostId, nextCommentId, catPublished, now, response>>
store == <<posts, comments, nextPostId, nextCommentId, catPublished>>

\* ------------------------------------------------------------- responses
\* What a view hands back: a rendered template, a redirect (with the id it is
\* given), the explicit HttpResponseNotFound('<h1>...</h1>') of
\* PostDetailView.dispatch, or a raised Http404 (which the framework's 404
\* handler renders).
Render(template, items) == [kind |-> "render", to |-> template, items |-> items]
FormErrors(template) == [kind |-> "form_errors", to |-> template, items |-> {}]
Redirect(name, args) == [kind |-> "redirect", to |-> name, items |-> args]
Http404 == [kind |-> "Http404", to |-> "handler404", items |-> {}]
\* the body in the source is the Russian for "Page not found"
HttpResponseNotFound ==
    [kind |-> "HttpResponseNotFound", to |-> "<h1>Page not found</h1>", items |-> {}]
\* LoginRequiredMixin.handle_no_permission / login_required
RedirectToLogin == Redirect("login", {})
\* the mixin chain lets the request through to the view's own handler
Proceed == [kind |-> "proceed", to |-> "super().dispatch", items |-> {}]

\* the HTTP status code of a response
status_code(r) ==
    CASE r.kind \in {"render", "form_errors"} -> 200
      [] r.kind = "redirect" -> 302
      [] OTHER -> 404

\* A request as the response remembers it: the view, request.user, the post_id
\* and comment_id of the URL (0 when the URL has none), the slug or username of
\* the URL ("" when it has none) and whether the form it submitted is valid
\* (form.is_valid(); TRUE for a request that submits no form).
Request(op, viewer, post_id, comment_id, arg, valid) ==
    [op |-> op, viewer |-> viewer, post_id |-> post_id,
     comment_id |-> comment_id, arg |-> arg, valid |-> valid]
NoRequest == Request("none", Anonymous, 0, 0, "", TRUE)
Respond(req, r) ==
    [op |-> req.op, viewer |-> req.viewer,
     post_id |-> req.post_id, comment_id |-> req.comment_id, arg |-> req.arg,
     valid |-> req.valid, kind |-> r.kind, to |-> r.to, items |-> r.items]

\* ----------------------------------------------------------------- store
PostExists(post_id) == \E p \in posts : p.id = post_id
\* Post.objects.get(pk=post_id), defined when PostExists(post_id)
GetPost(post_id) == CHOOSE p \in posts : p.id = post_id

Init ==
    /\ posts = {}
    /\ comments = {}
    /\ nextPostId = 1
    /\ nextCommentId = 1
    /\ catPublished \in [Categories -> BOOLEAN]
    /\ now = 0
    /\ response = Respond(NoRequest, Render("none", {}))

\* ----------------------------------------------------------------- reads
\* variant of PostListView.get_queryset with the fault pub_date__lt for
\* pub_date__lte
PostListView_get_queryset_Strict ==
    {p.id : p \in {q \in posts : /\ q.pub_date < now
                                 /\ q.is_published = TRUE
                                 /\ catPublished[q.category] = TRUE}}

\* PostListView.get_queryset
PostListView_get_queryset ==
    {p.id : p \in {q \in posts : /\ q.pub_date <= now
                                 /\ q.is_published = TRUE
                                 /\ catPublished[q.category] = TRUE}}

\* variant of PostDetailView.dispatch with the fault that the category's flag
\* is not consulted
PostDetailView_dispatch_NoCategory(viewer, post_id) ==
    IF ~PostExists(post_id) THEN Http404
    ELSE LET post == GetPost(post_id) IN
         IF /\ viewer # post.author
            /\ \/ post.is_published = FALSE
               \/ post.pub_date > now
         THEN HttpResponseNotFound
         ELSE Render("blog/detail.html", {post_id})

\* PostDetailView.dispatch; get_object() raises Http404 for an absent pk
PostDetailView_dispatch(viewer, post_id) ==
    IF ~PostExists(post_id) THEN Http404
    ELSE LET post == GetPost(post_id) IN
         IF /\ viewer # post.author
            /\ \/ post.is_published = FALSE
               \/ catPublished[post.category] = FALSE
               \/ post.pub_date > now
         THEN HttpResponseNotFound
         ELSE Render("blog/detail.html", {post_id})

\* variant of category_posts with the fault that the category is looked up by
\* slug alone, without is_published=True
category_posts_AnyCategory(category_slug) ==
    IF category_slug \notin Categories
    THEN Http404
    ELSE Render("blog/category.html",
                {p.id : p \in {q \in posts : /\ q.category = category_slug
                                             /\ q.is_published = TRUE
                                             /\ q.pub_date <= now}})

\* category_posts
category_posts(category_slug) ==
    IF ~(category_slug \in Categories /\ catPublished[category_slug] = TRUE)
    THEN Http404
    ELSE Render("blog/category.html",
                {p.id : p \in {q \in posts : /\ q.category = category_slug
                                             /\ q.is_published = TRUE
                                             /\ q.pub_date <= now}})

\* variant of ProfileListView.get_queryset with the fault that the profile
\* feed filters on is_published
ProfileListView_get_queryset_Published(username) ==
    {p.id : p \in {q \in posts : q.author = username /\ q.is_published = TRUE}}

\* ProfileListView.get_queryset
ProfileListView_get_queryset(username) ==
    {p.id : p \in {q \in posts : q.author = username}}

\* ProfileListView: get_context_data raises Http404 for an unknown username
ProfileListView(username) ==
    IF username \notin Users THEN Http404
    ELSE Render("blog/profile.html", ProfileListView_get_queryset(username))

Index(viewer) ==
    /\ response' = Respond(Request("index", viewer, 0, 0, "", TRUE),
                           Render("blog/index.html", PostListView_get_queryset))
    /\ UNCHANGED <<store, now>>

PostDetail(viewer, post_id) ==
    /\ response' = Respond(Request("post_detail", viewer, post_id, 0, "", TRUE),
                           PostDetailView_dispatch(viewer, post_id))
    /\ UNCHANGED <<store, now>>

CategoryPosts(viewer, category_slug) ==
    /\ response' = Respond(Request("category_posts", viewer, 0, 0, category_slug, TRUE),
                           category_posts(category_slug))
    /\ UNCHANGED <<store, now>>

Profile(viewer, username) ==
    /\ response' = Respond(Request("profile", viewer, 0, 0, username, TRUE),
                           ProfileListView(username))
    /\ UNCHANGED <<store, now>>

\* ---------------------------------------------------------------- writes
\* variant of OnlyAuthorMixin.dispatch with the fault that only the login is
\* required and the author comparison is missing
OnlyAuthorMixin_dispatch_LoginOnly(viewer, objs, post_id) ==
    IF objs = {} THEN Http404
    ELSE IF ~is_authenticated(viewer) THEN RedirectToLogin
    ELSE Proceed

\* OnlyAuthorMixin.dispatch: get_object() (Http404 when no row matches), the
\* author comparison, then super().dispatch, which is LoginRequiredMixin's.
\* `objs` is the set of rows get_object()'s lookup matches (none or one).
OnlyAuthorMixin_dispatch(viewer, objs, post_id) ==
    IF objs = {} THEN Http404
    ELSE IF viewer # (CHOOSE o \in objs : TRUE).author
         THEN Redirect("blog:post_detail", {post_id})
    ELSE IF ~is_authenticated(viewer) THEN RedirectToLogin
    ELSE Proceed

\* variant of PostCreateView.form_valid with the fault that the author is left
\* as the form built it
PostCreateView_form_valid_KeepAuthor(viewer, instance, cleaned_pub_date) ==
    [instance EXCEPT !.pub_date = cleaned_pub_date]

\* PostCreateView.form_valid: the instance the form built, with author and
\* pub_date set by the view
PostCreateView_form_valid(viewer, instance, cleaned_pub_date) ==
    [instance EXCEPT !.author = viewer, !.pub_date = cleaned_pub_date]

\* PostCreateView (LoginRequiredMixin, CreateView).  `submitted_author` is an
\* author value present in the submitted input.
PostCreate(viewer, method, valid) ==
    LET req == Request("post_create", viewer, 0, 0, "", method = "GET" \/ valid) IN
    IF ~is_authenticated(viewer)
    THEN /\ response' = Respond(req, RedirectToLogin)
         /\ UNCHANGED <<store, now>>
    ELSE IF method = "GET"
    THEN /\ response' = Respond(req, Render("blog/create.html", {}))
         /\ UNCHANGED <<store, now>>
    ELSE IF ~valid
    THEN /\ response' = Respond(req, FormErrors("blog/create.html"))
         /\ UNCHANGED <<store, now>>
    ELSE /\ nextPostId <= MaxPosts
         /\ \E submitted_author \in Users, is_published \in BOOLEAN,
               category \in Categories, pub_date \in Times :
               LET instance == [id |-> nextPostId, author |-> submitted_author,
                                is_published |-> is_published,
                                category |-> category, pub_date |-> pub_date]
               IN posts' = posts \cup
                      {PostCreateView_form_valid(viewer, instance, pub_date)}
         /\ nextPostId' = nextPostId + 1
         /\ response' = Respond(req, Redirect("blog:profile", {}))
         /\ UNCHANGED <<comments, nextCommentId, catPublished, now>>

\* the fields PostUpdateView's form writes: ('title', 'text', 'location',
\* 'category', 'image', 'pub_date'); of these the model carries two
PostUpdateView_fields(post, category, pub_date) ==
    [post EXCEPT !.category = category, !.pub_date = pub_date]

\* PostUpdateView (OnlyAuthorMixin, UpdateView)
PostUpdate(viewer, post_id, method, valid) ==
    LET req == Request("post_edit", viewer, post_id, 0, "", method = "GET" \/ valid)
        objs == {p \in posts : p.id = post_id}
        guard == OnlyAuthorMixin_dispatch(viewer, objs, post_id)
    IN
    IF guard # Proceed
    THEN /\ response' = Respond(req, guard)
         /\ UNCHANGED <<store, now>>
    ELSE IF method = "GET"
    THEN /\ response' = Respond(req, Render("blog/create.html", {post_id}))
         /\ UNCHANGED <<store, now>>
    ELSE IF ~valid
    THEN /\ response' = Respond(req, FormErrors("blog/create.html"))
         /\ UNCHANGED <<store, now>>
    ELSE /\ \E category \in Categories, pub_date \in Times :
               posts' = (posts \ objs) \cup
                        {PostUpdateView_fields(o, category, pub_date) : o \in objs}
         /\ response' = Respond(req, Redirect("blog:post_detail", {post_id}))
         /\ UNCHANGED <<comments, nextPostId, nextCommentId, catPublished, now>>

\* PostDeleteView (OnlyAuthorMixin, DeleteView)
PostDelete(viewer, post_id, method) ==
    LET req == Request("post_delete", viewer, post_id, 0, "", TRUE)
        objs == {p \in posts : p.id = post_id}
        guard == OnlyAuthorMixin_dispatch(viewer, objs, post_id)
    IN
    IF guard # Proceed
    THEN /\ response' = Respond(req, guard)
         /\ UNCHANGED <<store, now>>
    ELSE IF method = "GET"
    THEN /\ response' = Respond(req, Render("blog/create.html", {post_id}))
         /\ UNCHANGED <<store, now>>
    ELSE /\ posts' = posts \ objs
         /\ response' = Respond(req, Redirect("blog:index", {}))
         /\ UNCHANGED <<comments, nextPostId, nextCommentId, catPublished, now>>

\* variant of add_comment with the fault that the comment is saved whether or
\* not the form is valid
add_comment_SavesInvalid(viewer, post_id, valid) ==
    LET req == Request("add_comment", viewer, post_id, 0, "", valid) IN
    IF ~is_authenticated(viewer)
    THEN /\ response' = Respond(req, RedirectToLogin)
         /\ UNCHANGED <<store, now>>
    ELSE IF ~PostExists(post_id)
    THEN /\ response' = Respond(req, Http404)
         /\ UNCHANGED <<store, now>>
    ELSE IF valid \/ ~valid
    THEN /\ nextCommentId <= MaxComments
         /\ \E submitted_author \in Users, text \in Texts :
               LET comment == [id |-> nextCommentId, post |-> 0,
                               author |-> submitted_author, text |-> text]
               IN comments' = comments \cup
                      {[comment EXCEPT !.post = post_id, !.author = viewer]}
         /\ nextCommentId' = nextCommentId + 1
         /\ response' = Respond(req, Redirect("blog:post_detail", {post_id}))
         /\ UNCHANGED <<posts, nextPostId, catPublished, now>>
    ELSE /\ response' = Respond(req, Redirect("blog:post_detail", {post_id}))
         /\ UNCHANGED <<store, now>>

\* variant of add_comment with the fault that a post the viewer may not view is
\* answered like an absent one
add_comment_ChecksVisibility(viewer, post_id, valid) ==
    LET req == Request("add_comment", viewer, post_id, 0, "", valid) IN
    IF ~is_authenticated(viewer)
    THEN /\ response' = Respond(req, RedirectToLogin)
         /\ UNCHANGED <<store, now>>
    ELSE IF \/ ~PostExists(post_id)
            \/ LET post == GetPost(post_id) IN
               /\ viewer # post.author
               /\ \/ post.is_published = FALSE
                  \/ catPublished[post.category] = FALSE
                  \/ post.pub_date > now
    THEN /\ response' = Respond(req, Http404)
         /\ UNCHANGED <<store, now>>
    ELSE IF valid
    THEN /\ nextCommentId <= MaxComments
         /\ \E submitted_author \in Users, text \in Texts :
               LET comment == [id |-> nextCommentId, post |-> 0,
                               author |-> submitted_author, text |-> text]
               IN comments' = comments \cup
                      {[comment EXCEPT !.post = post_id, !.author = viewer]}
         /\ nextCommentId' = nextCommentId + 1
         /\ response' = Respond(req, Redirect("blog:post_detail", {post_id}))
         /\ UNCHANGED <<posts, nextPostId, catPublished, now>>
    ELSE /\ response' = Respond(req, Redirect("blog:post_detail", {post_id}))
         /\ UNCHANGED <<store, now>>

\* add_comment (@login_required)
add_comment(viewer, post_id, valid) ==
    LET req == Request("add_comment", viewer, post_id, 0, "", valid) IN
    IF ~is_authenticated(viewer)
    THEN /\ response' = Respond(req, RedirectToLogin)
         /\ UNCHANGED <<store, now>>
    ELSE IF ~PostExists(post_id)
    THEN /\ response' = Respond(req, Http404)
         /\ UNCHANGED <<store, now>>
    ELSE IF valid
    THEN /\ nextCommentId <= MaxComments
         /\ \E submitted_author \in Users, text \in Texts :
               LET comment == [id |-> nextCommentId, post |-> 0,
                               author |-> submitted_author, text |-> text]
               IN comments' = comments \cup
                      {[comment EXCEPT !.post = post_id, !.author = viewer]}
         /\ nextCommentId' = nextCommentId + 1
         /\ response' = Respond(req, Redirect("blog:post_detail", {post_id}))
         /\ UNCHANGED <<posts, nextPostId, catPublished, now>>
    ELSE /\ response' = Respond(req, Redirect("blog:post_detail", {post_id}))
         /\ UNCHANGED <<store, now>>

\* the fields CommentUpdateView's form writes: ('text',)
CommentUpdateView_fields(comment, text) == [comment EXCEPT !.text = text]

\* CommentUpdateView (OnlyAuthorMixin, UpdateView)
CommentUpdate(viewer, post_id, comment_id, method, valid) ==
    LET req == Request("comment_edit", viewer, post_id, comment_id, "",
                       method = "GET" \/ valid)
        objs == {c \in comments : c.id = comment_id /\ c.post = post_id}
        guard == OnlyAuthorMixin_dispatch(viewer, objs, post_id)
    IN
    IF guard # Proceed
    THEN /\ response' = Respond(req, guard)
         /\ UNCHANGED <<store, now>>
    ELSE IF method = "GET"
    THEN /\ response' = Respond(req, Render("blog/comment.html", {post_id}))
         /\ UNCHANGED <<store, now>>
    ELSE IF ~valid
    THEN /\ response' = Respond(req, FormErrors("blog/comment.html"))
         /\ UNCHANGED <<store, now>>
    ELSE /\ \E text \in Texts :
               comments' = (comments \ objs) \cup
                           {CommentUpdateView_fields(o, text) : o \in objs}
         /\ response' = Respond(req, Redirect("blog:post_detail", {post_id}))
         /\ UNCHANGED <<posts, nextPostId, nextCommentId, catPublished, now>>

\* CommentDeleteView (OnlyAuthorMixin, DeleteView)
CommentDelete(viewer, post_id, comment_id, method) ==
    LET req == Request("comment_delete", viewer, post_id, comment_id, "", TRUE)
        objs == {c \in comments : c.id = comment_id /\ c.post = post_id}
        guard == OnlyAuthorMixin_dispatch(viewer, objs, post_id)
    IN
    IF guard # Proceed
    THEN /\ response' = Respond(req, guard)
         /\ UNCHANGED <<store, now>>
    ELSE IF method = "GET"
    THEN /\ response' = Respond(req, Render("blog/comment.html", {post_id}))
         /\ UNCHANGED <<store, now>>
    ELSE /\ comments' = comments \ objs
         /\ response' = Respond(req, Redirect("blog:post_detail", {post_id}))
         /\ UNCHANGED <<posts, nextPostId, nextCommentId, catPublished, now>>

\* ------------------------------------------------------------ environment
\* timezone.now() advances
Tick ==
    /\ now < MaxTime
    /\ now' = now + 1
    /\ response' = Respond(NoRequest, Render("none", {}))
    /\ UNCHANGED store

\* an administrator sets a category's is_published flag
AdminSetCategory(category, flag) ==
    /\ catPublished[category] # flag
    /\ catPublished' = [catPublished EXCEPT ![category] = flag]
    /\ response' = Respond(NoRequest, Render("none", {}))
    /\ UNCHANGED <<posts, comments, nextPostId, nextCommentId, now>>

Next ==
    \/ \E v \in Viewers : Index(v)
    \/ \E v \in Viewers, id \in PostIds : PostDetail(v, id)
    \/ \E v \in Viewers, s \in Slugs : CategoryPosts(v, s)
    \/ \E v \in Viewers, u \in Usernames : Profile(v, u)
    \/ \E v \in Viewers, m \in Methods, valid \in BOOLEAN : PostCreate(v, m, valid)
    \/ \E v \in Viewers, id \in PostIds, m \in Methods, valid \in BOOLEAN :
          PostUpdate(v, id, m, valid)
    \/ \E v \in Viewers, id \in PostIds, m \in Methods : PostDelete(v, id, m)
    \/ \E v \in Viewers, id \in PostIds, valid \in BOOLEAN : add_comment(v, id, valid)
    \/ \E v \in Viewers, id \in PostIds, cid \in CommentIds, m \in Methods,
          valid \in BOOLEAN : CommentUpdate(v, id, cid, m, valid)
    \/ \E v \in Viewers, id \in PostIds, cid \in CommentIds, m \in Methods :
          CommentDelete(v, id, cid, m)
    \/ Tick
    \/ \E c \in Categories, b \in BOOLEAN : AdminSetCategory(c, b)

Spec == Init /\ [][Next]_vars
\* ================================================================ claims
\* the public branch of the spec's canView: the three-clause predicate
PubliclyVisible(p) ==
    p.is_published /\ catPublished[p.category] /\ p.pub_date <= now
\* the spec's canView(P, V)
canView(p, v) == v = p.author \/ PubliclyVisible(p)
RendersPost(r, post_id) ==
    r.kind = "render" /\ r.to = "blog/detail.html" /\ r.items = {post_id}
IsNotFound(r) == status_code(r) = 404
MutatingOps == {"post_edit", "post_delete", "comment_edit", "comment_delete"}

\* C1: for every existing post P, viewer V and time, the detail request
\* succeeds iff V is P's author or P is published, its category is published
\* and pub_date <= now; in every other case the response is NotFound.
C1_DetailIffCanView ==
    /\ \A v \in Viewers, id \in PostIds :
          PostExists(id) =>
              LET r == PostDetailView_dispatch(v, id) IN
              /\ RendersPost(r, id) <=> canView(GetPost(id), v)
              /\ ~canView(GetPost(id), v) => IsNotFound(r)
    /\ (response.op = "post_detail" /\ PostExists(response.post_id)) =>
          IF canView(GetPost(response.post_id), response.viewer)
          THEN RendersPost(response, response.post_id)
          ELSE IsNotFound(response)

\* C1 witness: an author has requested the detail view of their own post that
\* is not publicly visible, and was shown it.
C1_Witness ==
    /\ response.op = "post_detail"
    /\ PostExists(response.post_id)
    /\ response.viewer = GetPost(response.post_id).author
    /\ ~PubliclyVisible(GetPost(response.post_id))
    /\ RendersPost(response, response.post_id)

\* C5: the home feed holds exactly the publicly visible posts, the feed of a
\* published category C exactly those of them whose category is C (an
\* unpublished or absent category is NotFound), and a post is listed iff its
\* detail view is visible to the anonymous viewer.
C5_FeedsArePublicPosts ==
    /\ PostListView_get_queryset = {p.id : p \in {q \in posts : PubliclyVisible(q)}}
    /\ \A slug \in Slugs :
          LET r == category_posts(slug) IN
          IF slug \in Categories /\ catPublished[slug]
          THEN /\ r.kind = "render"
               /\ r.items = {p.id : p \in {q \in posts :
                                 PubliclyVisible(q) /\ q.category = slug}}
          ELSE r = Http404
    /\ \A id \in PostIds :
          /\ id \in PostListView_get_queryset
                <=> RendersPost(PostDetailView_dispatch(Anonymous, id), id)
          /\ (\E slug \in Slugs : id \in category_posts(slug).items)
                <=> RendersPost(PostDetailView_dispatch(Anonymous, id), id)
    /\ response.op = "index" =>
          response.items = {p.id : p \in {q \in posts : PubliclyVisible(q)}}
    /\ response.op = "category_posts" =>
          IF response.arg \in Categories /\ catPublished[response.arg]
          THEN response.items = {p.id : p \in {q \in posts :
                                  PubliclyVisible(q) /\ q.category = response.arg}}
          ELSE response.kind = "Http404"

\* C5 witness: the home feed was requested while a post that is itself
\* published and due sits in an unpublished category, and did not list it.
C5_Witness ==
    /\ response.op = "index"
    /\ \E p \in posts : /\ p.is_published
                        /\ p.pub_date <= now
                        /\ ~catPublished[p.category]
                        /\ p.id \notin response.items

\* C6 (as claimed): to a viewer who is not the author, the detail response for
\* an existing post they may not view is identical to the response for a post
\* id that does not exist.
C6_HiddenLooksAbsent ==
    \A v \in Viewers, id \in PostIds :
        (PostExists(id) /\ ~canView(GetPost(id), v)) =>
            PostDetailView_dispatch(v, id) = PostDetailView_dispatch(v, AbsentId)

\* C9: the profile feed of author A shows, to any viewer, exactly the stored
\* posts whose author is A, hidden ones included, and no post of another.
C9_ProfileShowsAllOfAuthor ==
    /\ \A u \in Users :
          LET r == ProfileListView(u) IN
          /\ r.kind = "render"
          /\ \A p \in posts : p.id \in r.items <=> p.author = u
          /\ r.items \subseteq {p.id : p \in posts}
    /\ (response.op = "profile" /\ response.arg \in Users) =>
          /\ response.kind = "render"
          /\ \A p \in posts : p.id \in response.items <=> p.author = response.arg
          /\ response.items \subseteq {p.id : p \in posts}

\* C9 witness: the anonymous viewer requested an author's profile and was
\* shown a post of theirs that is not publicly visible.
C9_Witness ==
    /\ response.op = "profile"
    /\ response.viewer = Anonymous
    /\ \E p \in posts : /\ p.author = response.arg
                        /\ ~PubliclyVisible(p)
                        /\ p.id \in response.items
\* ---- the steps of a request, read off the response it left
IsRedirectTo(r, name) == r.kind = "redirect" /\ r.to = name
RedirectedToDetail(r) ==
    IsRedirectTo(r, "blog:post_detail") /\ r.items = {r.post_id}

\* The step of C2: an edit or delete request by a viewer who is not the item's
\* author (the anonymous viewer included) is redirected to the post detail view
\* and leaves the persisted state unchanged; a stored item is modified or removed
\* only by an edit or delete request of its author on that very item.
C2_Step ==
    /\ \A p \in posts :
          p \notin posts' =>
              /\ response'.op \in {"post_edit", "post_delete"}
              /\ response'.post_id = p.id
              /\ response'.viewer = p.author
    /\ \A c \in comments :
          c \notin comments' =>
              /\ response'.op \in {"comment_edit", "comment_delete"}
              /\ response'.comment_id = c.id
              /\ response'.post_id = c.post
              /\ response'.viewer = c.author
    /\ (/\ response'.op \in {"post_edit", "post_delete"}
        /\ \E p \in posts : p.id = response'.post_id /\ p.author # response'.viewer)
          => RedirectedToDetail(response') /\ store' = store
    /\ (/\ response'.op \in {"comment_edit", "comment_delete"}
        /\ \E c \in comments : /\ c.id = response'.comment_id
                               /\ c.post = response'.post_id
                               /\ c.author # response'.viewer)
          => RedirectedToDetail(response') /\ store' = store
C3_AnonymousToLogin ==
    (response.op \in MutatingOps /\ response.viewer = Anonymous)
        => IsRedirectTo(response, "login")

\* The step of C4: a post or comment enters the store only through a create
\* request of an authenticated viewer, with that viewer as its author whatever author the
\* submitted input carried, and no request changes the author of a stored item.
C4_Step ==
    /\ \A q \in posts' :
          IF \E p \in posts : p.id = q.id
          THEN q.author = (CHOOSE p \in posts : p.id = q.id).author
          ELSE /\ response'.op = "post_create"
               /\ is_authenticated(response'.viewer)
               /\ q.author = response'.viewer
    /\ \A d \in comments' :
          IF \E c \in comments : c.id = d.id
          THEN d.author = (CHOOSE c \in comments : c.id = d.id).author
          ELSE /\ response'.op = "add_comment"
               /\ is_authenticated(response'.viewer)
               /\ d.author = response'.viewer
\* C4: every step of the system is a C4_Step: the author of a stored post or
\* comment is the authenticated viewer whose request created it, and stays so.
C4_AuthorIsCreator == [][C4_Step]_vars

\* C4 witness: a create-post request has stored a post whose author is the
\* requesting viewer.
C4_Witness ==
    /\ response.op = "post_create"
    /\ IsRedirectTo(response, "blog:profile")
    /\ \E p \in posts : p.id = nextPostId - 1 /\ p.author = response.viewer

\* the request reached form.is_valid() (it passed the login and ownership
\* steps and its target exists) and the form was invalid
ValidationFailed(r) ==
    /\ ~r.valid
    /\ \/ r.op = "post_create" /\ is_authenticated(r.viewer)
       \/ r.op = "post_edit"
            /\ \E p \in posts : p.id = r.post_id /\ p.author = r.viewer
       \/ r.op = "add_comment" /\ is_authenticated(r.viewer) /\ PostExists(r.post_id)
       \/ r.op = "comment_edit"
            /\ \E c \in comments : /\ c.id = r.comment_id
                                   /\ c.post = r.post_id
                                   /\ c.author = r.viewer

\* C7 (as claimed): when a submitted form fails validation (post create, post
\* edit, comment add, comment edit) the handler re-renders the form with errors
\* and persists nothing.
C7_InvalidRerendersForm ==
    [][ValidationFailed(response')
          => response'.kind = "form_errors" /\ store' = store]_vars

\* C7 (amended): a form that fails validation persists nothing; post create,
\* post edit and comment edit re-render the form with errors, while add_comment
\* shows no errors and redirects to the post detail view.
C7_InvalidPersistsNothing ==
    [][ValidationFailed(response')
          => /\ store' = store
             /\ IF response'.op = "add_comment"
                THEN RedirectedToDetail(response')
                ELSE response'.kind = "form_errors"]_vars

\* C7 witness: an authenticated viewer submitted an invalid comment on a stored
\* post and was redirected to the post's detail view.
C7_Witness ==
    /\ response.op = "add_comment"
    /\ ~response.valid
    /\ is_authenticated(response.viewer)
    /\ PostExists(response.post_id)
    /\ RedirectedToDetail(response)

\* a post is shown to every viewer: in its detail view, the home feed and the
\* feed of its category
ShownToAll(p) ==
    /\ \A v \in Viewers : RendersPost(PostDetailView_dispatch(v, p.id), p.id)
    /\ p.id \in PostListView_get_queryset
    /\ p.id \in category_posts(p.category).items
\* a post is hidden from every viewer but its author, in the same three places
HiddenFromOthers(p) ==
    /\ \A v \in Viewers \ {p.author} : IsNotFound(PostDetailView_dispatch(v, p.id))
    /\ p.id \notin PostListView_get_queryset
    /\ p.id \notin category_posts(p.category).items
Flags(p) == <<p.is_published, catPublished[p.category]>>

\* The state part of C8: a post whose flags are both set is hidden from
\* non-authors strictly before its pub_date and shown to all from pub_date on
\* (pub_date = now included)
C8_Scheduled ==
    \A p \in posts :
        (p.is_published /\ catPublished[p.category]) =>
            IF p.pub_date > now THEN HiddenFromOthers(p) ELSE ShownToAll(p)

\* C8 (as claimed): once shown to all, a post stays shown as long as its flags
\* are unchanged and it is not deleted.
C8_StaysVisible ==
    [][\A p \in posts :
          (/\ ShownToAll(p)
           /\ \E q \in posts' : q.id = p.id /\ Flags(q)' = Flags(p))
              => \E q \in posts' : q.id = p.id /\ ShownToAll(q)']_vars

\* C8 (amended): a scheduled post is hidden from non-authors before pub_date
\* and shown to all from pub_date on, and once shown it stays shown as long as
\* its flags and its pub_date are unchanged and it is not deleted.
C8_ScheduledThenVisible ==
    /\ []C8_Scheduled
    /\ [][\A p \in posts :
            (/\ ShownToAll(p)
             /\ \E q \in posts' : /\ q.id = p.id
                                  /\ Flags(q)' = Flags(p)
                                  /\ q.pub_date = p.pub_date)
                => \E q \in posts' : q.id = p.id /\ ShownToAll(q)']_vars

\* C8 witness: the clock has reached the pub_date of a post that was scheduled
\* (pub_date = now > 0) and the anonymous viewer has been shown its detail view.
C8_Witness ==
    /\ response.op = "post_detail"
    /\ response.viewer = Anonymous
    /\ \E p \in posts : /\ p.id = response.post_id
                        /\ p.pub_date = now
                        /\ now > 0
                        /\ RendersPost(response, p.id)

\* The step of C10: a valid comment submitted by an authenticated viewer V on an
\* existing post P stores exactly one new comment on P with author V, also when V may
\* not view P; only when P does not exist is the outcome NotFound, and then
\* nothing is stored.
C10_Step ==
    (response'.op = "add_comment" /\ is_authenticated(response'.viewer)) =>
        IF PostExists(response'.post_id)
        THEN /\ RedirectedToDetail(response')
             /\ response'.valid =>
                   /\ \E c \in comments' \ comments :
                         /\ comments' = comments \cup {c}
                         /\ c.post = response'.post_id
                         /\ c.author = response'.viewer
                   /\ posts' = posts
        ELSE response'.kind = "Http404" /\ store' = store
\* C10: every step of the system is a C10_Step: add_comment does not consult
\* the visibility predicate.
C10_CommentIgnoresVisibility == [][C10_Step]_vars

\* C10 witness: a viewer has commented on a post they may not view.
C10_Witness ==
    /\ response.op = "add_comment"
    /\ response.valid
    /\ \E p \in posts :
          /\ p.id = response.post_id
          /\ ~canView(p, response.viewer)
          /\ \E c \in comments : /\ c.id = nextCommentId - 1
                                 /\ c.post = p.id
                                 /\ c.author = response.viewer
====
